---- MODULE Spec2Model ----
(***************************************************************************)
(* UniversalCameraViewer: the four scripts asiofinder, capture_app,        *)
(* guiver/main and other, as one state machine.  A run picks one script.   *)
(* The UI (main) thread, the video QThread, the audio QThread and the      *)
(* audio library's callback are interleaved step by step.                  *)
(*                                                                         *)
(* Python strings that the code formats and parses back are sequences of   *)
(* characters/tokens; Python lists are sequences read with a 0-based At.   *)
(***************************************************************************)
EXTENDS Integers, Sequences, FiniteSets, TLC

\* ------------------------------------------------------------------ bounds
MaxVideoDevs == 1     \* video devices the OS lists
MaxSdDevs == 2        \* devices sounddevice lists
MaxRtDevs == 1        \* devices an rtmixer API lists
MaxReads == 1         \* cap.read() calls of one video thread while running
MaxStatus == 1        \* audio callbacks that carry a status
MaxInputLen == 2      \* characters of a line typed at input()

None == 0 - 1         \* Python None where an int is expected

\* ------------------------------------------------------------ Python lists
At(list, i) == list[i + 1]

Range(list) == {list[i] : i \in 1..Len(list)}

SeqsUpTo(S, n) == UNION {[1..k -> S] : k \in 0..n}

\* ---------------------------------------------------------- Python strings
DigitChars == <<"0", "1", "2", "3", "4", "5", "6", "7", "8", "9">>

IsDigit(c) == \E i \in 1..10 : DigitChars[i] = c

DigitVal(c) == (CHOOSE i \in 1..10 : DigitChars[i] = c) - 1

\* str(n) for n >= 0, as f"{i}" produces it
RECURSIVE ToStr(_)
ToStr(n) == IF n < 10 THEN <<DigitChars[n + 1]>>
            ELSE ToStr(n \div 10) \o <<DigitChars[(n % 10) + 1]>>

RECURSIVE DigitsVal(_)
DigitsVal(s) == IF s = <<>> THEN 0
                ELSE 10 * DigitsVal(SubSeq(s, 1, Len(s) - 1)) + DigitVal(s[Len(s)])

RECURSIVE LStrip(_)
LStrip(s) == IF s # <<>> /\ s[1] = " " THEN LStrip(Tail(s)) ELSE s

RECURSIVE RStrip(_)
RStrip(s) == IF s # <<>> /\ s[Len(s)] = " " THEN RStrip(SubSeq(s, 1, Len(s) - 1)) ELSE s

\* int(s): surrounding whitespace stripped, an optional sign, then one or
\* more digits; anything else raises ValueError.  The result is a record.
int(s) ==
  LET t == RStrip(LStrip(s))
      signed == t # <<>> /\ t[1] \in {"+", "-"}
      d == IF signed THEN Tail(t) ELSE t
  IN IF d = <<>> \/ \E i \in 1..Len(d) : ~IsDigit(d[i])
       THEN [ok |-> FALSE, val |-> 0]
       ELSE [ok |-> TRUE,
             val |-> IF signed /\ t[1] = "-" THEN 0 - DigitsVal(d) ELSE DigitsVal(d)]

\* s.split(":")[0]: the text before the first ":" (all of s when there is none)
RECURSIVE SplitColonHead(_)
SplitColonHead(s) == IF s = <<>> \/ s[1] = ":" THEN <<>>
                     ELSE <<s[1]>> \o SplitColonHead(Tail(s))

\* --------------------------------------------------- what the OS can report
\* names of video inputs (pygrabber FilterGraph.get_input_devices)
VideoNames == {<<"C", "a", "m">>, <<"U", "S", "B", ":", "2">>}

VideoLists == SeqsUpTo(VideoNames, MaxVideoDevs)

\* sounddevice device records: name, max_input_channels, hostapi
DevRecs == {[name |-> "Elgato HD60", max_input_channels |-> 1, hostapi |-> 0],
            [name |-> "Elgato HD60", max_input_channels |-> 0, hostapi |-> 0],
            [name |-> "AVerMedia Live", max_input_channels |-> 1, hostapi |-> 1],
            [name |-> "Microphone", max_input_channels |-> 1, hostapi |-> 0]}

SdLists == SeqsUpTo(DevRecs, MaxSdDevs)

\* name.lower()
Lower(name) == CASE name = "Elgato HD60" -> "elgato hd60"
                 [] name = "AVerMedia Live" -> "avermedia live"
                 [] name = "Microphone" -> "microphone"
                 [] name = "ASIO" -> "asio"
                 [] name = "MME" -> "mme"
                 [] name = "Windows WASAPI" -> "windows wasapi"
                 [] name = "WASAPI" -> "wasapi"
                 [] name = "WDM-KS" -> "wdm-ks"
                 [] name = "DirectSound" -> "directsound"
                 [] OTHER -> name

\* sub in s, for the substrings the code looks for
Contains(sub, s) ==
  \/ sub = "elgato" /\ s = "elgato hd60"
  \/ sub = "avermedia" /\ s = "avermedia live"

\* sd.query_hostapis(): the host APIs a device's hostapi field indexes
HostApiLists == {<<>>, <<[name |-> "MME"]>>,
                 <<[name |-> "MME"], [name |-> "ASIO"]>>,
                 <<[name |-> "ASIO"], [name |-> "Windows WASAPI"]>>}

\* the host API list of a machine that has the devices of DevRecs
HostApis == <<[name |-> "MME"], [name |-> "Windows WASAPI"]>>

\* rtmixer: the device infos one API's mixer can report
RtInfos == {[name |-> <<"9", ":", "In">>, inputChannels |-> 1],
            [name |-> <<"Out">>, inputChannels |-> 0]}

\* the members of rtmixer.Api that an installed rtmixer can have here
RtApiNames == {"ASIO", "WASAPI"}

RtApiOptions == [present : {TRUE}, devs : SeqsUpTo(RtInfos, MaxRtDevs)]
                  \cup {[present |-> FALSE, devs |-> <<>>]}

\* an rtmixer installation: which Api members exist and what each lists
RtEnvs == [RtApiNames -> RtApiOptions]

NoRtEnv == [a \in RtApiNames |-> [present |-> FALSE, devs |-> <<>>]]

\* lines the user can type at input()
InputChars == {"0", "1", "-", " ", "x"}

InputLines == SeqsUpTo(InputChars, MaxInputLen)

NoLine == <<"<nothing typed>">>

\* =========================================================================
\* capture_app.py
\* =========================================================================

\* the filter of capture_app.list_audio_input_devices_filtered (line 136):
\* 'avermedia' is looked for in the name as it is, not lowered
capture_app_matches(dev) ==
  /\ dev.max_input_channels > 0
  /\ \/ Contains("elgato", Lower(dev.name))
     \/ Contains("avermedia", dev.name)
     \/ Contains("evga", Lower(dev.name))

\* capture_app.list_audio_input_devices_filtered: (filtered_devices, filtered_names)
capture_app_list_audio_input_devices_filtered(devices) ==
  LET filtered == SelectSeq(devices, capture_app_matches)
  IN [devices |-> filtered,
      names |-> [i \in 1..Len(filtered) |-> filtered[i].name]]

\* positions (from 0) in devices of the records that
\* list_audio_input_devices_filtered appends to filtered_devices, in order
\* (the loop of lines 135-138)
filtered_positions(devices) ==
  LET idx == {i \in 1..Len(devices) : capture_app_matches(devices[i])}
  IN [k \in 1..Cardinality(idx) |->
        (CHOOSE i \in idx : Cardinality({j \in idx : j < i}) = k - 1) - 1]

\* variant: the upper limit is accepted too
prompt_selection_inclusive(max_index, line) ==
  LET r == int(line)
  IN IF r.ok /\ 0 <= r.val /\ r.val <= max_index THEN r.val ELSE None

\* capture_app.prompt_selection, one pass of its loop on one typed line:
\* the choice it returns, or None when it prints a message and asks again
prompt_selection(max_index, line) ==
  LET r == int(line)
  IN IF r.ok /\ 0 <= r.val /\ r.val < max_index THEN r.val ELSE None

\* list.index(x): position of the first element equal to x, None for ValueError
ListIndex(list, x) ==
  IF \E i \in 1..Len(list) : list[i] = x
    THEN (CHOOSE i \in 1..Len(list) :
            list[i] = x /\ \A j \in 1..(i - 1) : list[j] # x) - 1
    ELSE None

\* =========================================================================
\* guiver/main.py
\* =========================================================================
preferred_api_names == <<"ASIO", "WASAPI", "WDM-KS", "DirectSound">>

\* guiver get_rtmixer_api_by_name: the Api member of that name, or "" for None
get_rtmixer_api_by_name(installed, rtenv, name) ==
  IF ~installed THEN ""
  ELSE IF \E a \in RtApiNames : rtenv[a].present /\ Lower(a) = Lower(name)
    THEN CHOOSE a \in RtApiNames : rtenv[a].present /\ Lower(a) = Lower(name)
    ELSE ""

\* the inner loop of list_rtmixer_devices_by_apis over one mixer's devices,
\* from device i on: entries (name, index, api) of the devices with inputs
RECURSIVE RtEntriesFrom(_, _, _, _)
RtEntriesFrom(devs, i, api, api_name) ==
  IF i >= Len(devs) THEN <<>>
  ELSE LET info == At(devs, i)
           rest == RtEntriesFrom(devs, i + 1, api, api_name)
       IN IF info.inputChannels > 0
            THEN <<[name |-> info.name \o <<" (", api_name, ")">>,
                    index |-> i, api |-> api]>> \o rest
            ELSE rest

\* guiver list_rtmixer_devices_by_apis, from preferred name k (1-based) on
RECURSIVE RtEntriesByApis(_, _, _)
RtEntriesByApis(installed, rtenv, k) ==
  IF ~installed \/ k > Len(preferred_api_names) THEN <<>>
  ELSE LET api_name == preferred_api_names[k]
           api == get_rtmixer_api_by_name(installed, rtenv, api_name)
           rest == RtEntriesByApis(installed, rtenv, k + 1)
       IN IF api = "" THEN rest
          ELSE RtEntriesFrom(rtenv[api].devs, 0, api, api_name) \o rest

\* guiver list_rtmixer_devices_by_apis: names, indices, apis (parallel lists)
list_rtmixer_devices_by_apis(installed, rtenv) ==
  LET es == RtEntriesByApis(installed, rtenv, 1)
  IN [names |-> [i \in 1..Len(es) |-> es[i].name],
      indices |-> [i \in 1..Len(es) |-> es[i].index],
      apis |-> [i \in 1..Len(es) |-> es[i].api]]

guiver_matches(dev) ==
  /\ dev.max_input_channels > 0
  /\ \/ Contains("elgato", Lower(dev.name))
     \/ Contains("avermedia", Lower(dev.name))
     \/ Contains("evga", Lower(dev.name))

\* the loop of guiver list_audio_input_devices_filtered from device i on
RECURSIVE SdEntriesFrom(_, _, _)
SdEntriesFrom(devices, hostapis, i) ==
  IF i >= Len(devices) THEN <<>>
  ELSE LET dev == At(devices, i)
           rest == SdEntriesFrom(devices, hostapis, i + 1)
       IN IF guiver_matches(dev)
            THEN <<[name |-> <<dev.name, " (", At(hostapis, dev.hostapi).name, ")">>,
                    index |-> i]>> \o rest
            ELSE rest

\* guiver list_audio_input_devices_filtered: names, indices (parallel lists)
guiver_list_audio_input_devices_filtered(devices, hostapis) ==
  LET es == SdEntriesFrom(devices, hostapis, 0)
  IN [names |-> [i \in 1..Len(es) |-> es[i].name],
      indices |-> [i \in 1..Len(es) |-> es[i].index]]

\* main lines 352-361: the combined list shown to the user and its sources
all_audio_names_of(rtmixer_names, fallback_names) ==
  [i \in 1..Len(rtmixer_names) |-> rtmixer_names[i] \o <<" [RtMixer]">>]
    \o [i \in 1..Len(fallback_names) |-> fallback_names[i] \o <<" [SoundDevice]">>]

device_source_of(rtmixer_names, fallback_names) ==
  [i \in 1..Len(rtmixer_names) |-> "rtmixer"]
    \o [i \in 1..Len(fallback_names) |-> "sounddevice"]

\* prompt_selection_gui line 317: the items of the dialog
gui_items(options) ==
  [k \in 1..Len(options) |-> ToStr(k - 1) \o <<":", " ">> \o options[k]]

\* prompt_selection_gui line 321: the index parsed back from the chosen text
gui_choice(item) == int(SplitColonHead(item)).val

\* =========================================================================
\* state
\* =========================================================================
VARIABLES
  app,      \* the script this run executes
  pc,       \* where the main (UI) thread is in the script
  loc,      \* the local variables of main that later statements read
  stack,    \* the closeEvent calls the UI thread is inside, innermost last
  win,      \* the windows: main (CaptureWindow / TestCamera) and dbg (DebugWindow)
  quit,     \* QApplication.quit() has been called
  vt,       \* the VideoThread object: pc, running, device_index
  cap,      \* the cv2.VideoCapture of the video thread
  at,       \* the audio thread object: kind, pc, running, device_index, api
  stream,   \* the sd.Stream of AudioStream / AudioStreamSD
  mixer,    \* the rtmixer.RtMixer of AudioStreamRTMixer (self.mixer)
  pending,  \* signals emitted to the UI thread and not yet delivered to a slot
  alive,    \* QThreads started and not yet finished, per kind
  log,      \* the teardown events, in the order they happened
  h         \* what has happened so far in this run (counters and flags)

vars == <<app, pc, loc, stack, win, quit, vt, cap, at, stream, mixer, pending, alive, log, h>>

Apps == {"asiofinder", "capture_app", "guiver", "other"}

InitLoc == [hostapis |-> <<>>, asio_hostapi_index |-> None,
            video_devices |-> <<>>, video_choice |-> None,
            audio_devices |-> <<>>, audio_names |-> <<>>,
            audio_positions |-> <<>>,
            rtmixer_names |-> <<>>, rtmixer_indices |-> <<>>, rtmixer_apis |-> <<>>,
            fallback_names |-> <<>>, fallback_indices |-> <<>>,
            all_audio_names |-> <<>>, device_source |-> <<>>,
            audio_choice |-> None, audio_choice_device_index |-> None,
            lastInput |-> NoLine]

InitH == [listed |-> {}, prompts |-> 0, reported |-> {}, error |-> "",
          attempts |-> <<>>, videoOpens |-> 0, audioOpens |-> 0,
          reads |-> 0, frames |-> 0, readsAfterStop |-> 0, status |-> 0,
          vstops |-> 0, astops |-> 0, userCloses |-> 0,
          lateEmit |-> FALSE, lateDeliver |-> FALSE]

NoThread == [pc |-> "none", running |-> FALSE, device_index |-> None]

NoAudio == [kind |-> "none", pc |-> "none", running |-> FALSE,
            device_index |-> None, api |-> ""]

Init ==
  /\ app \in Apps
  /\ pc = "main"
  /\ loc = InitLoc
  /\ stack = <<>>
  /\ win = [main |-> "none", dbg |-> "none", mainClosing |-> FALSE, dbgClosing |-> FALSE]
  /\ quit = FALSE
  /\ vt = NoThread
  /\ cap = "none"
  /\ at = NoAudio
  /\ stream = "none"
  /\ mixer = "none"
  /\ pending = [pixmap |-> 0, debug |-> 0, fps |-> 0]
  /\ alive = [video |-> 0, audio |-> 0]
  /\ log = <<>>
  /\ h = InitH

threadVars == <<vt, cap, at, stream, mixer, pending, alive>>

uiVars == <<stack, win, quit, log>>

\* the process is running (sys.exit, return from main or a traceback ends it)
Running == pc # "exited"

\* =========================================================================
\* asiofinder.py
\* =========================================================================

\* lines 3-5: print the host APIs
asiofinder_list_hostapis ==
  /\ app = "asiofinder" /\ pc = "main"
  /\ \E hl \in HostApiLists : loc' = [loc EXCEPT !.hostapis = hl]
  /\ h' = [h EXCEPT !.listed = @ \cup {"hostapis"}]
  /\ pc' = "af_find"
  /\ UNCHANGED <<app, uiVars, threadVars>>

\* lines 7-11: index of the first host API whose lowered name is 'asio'
asio_index_of(hostapis) ==
  IF \E i \in 1..Len(hostapis) : Lower(hostapis[i].name) = "asio"
    THEN (CHOOSE i \in 1..Len(hostapis) :
             /\ Lower(hostapis[i].name) = "asio"
             /\ \A j \in 1..(i - 1) : Lower(hostapis[j].name) # "asio") - 1
    ELSE None

\* lines 7-16: find ASIO; without it print the message and end
asiofinder_find_asio ==
  /\ app = "asiofinder" /\ pc = "af_find"
  /\ LET i == asio_index_of(loc.hostapis)
     IN /\ loc' = [loc EXCEPT !.asio_hostapi_index = i]
        /\ pc' = IF i = None THEN "exited" ELSE "af_devices"
        /\ h' = IF i = None THEN [h EXCEPT !.reported = @ \cup {"no asio"}] ELSE h
  /\ UNCHANGED <<app, uiVars, threadVars>>

\* lines 17-21: print the devices of the ASIO host API, then the script ends
asiofinder_list_devices ==
  /\ app = "asiofinder" /\ pc = "af_devices"
  /\ \E devices \in SdLists :
       loc' = [loc EXCEPT !.audio_devices =
                 SelectSeq(devices, LAMBDA dev : dev.hostapi = loc.asio_hostapi_index)]
  /\ h' = [h EXCEPT !.listed = @ \cup {"audio"}]
  /\ pc' = "exited"
  /\ UNCHANGED <<app, uiVars, threadVars>>

\* =========================================================================
\* other.py
\* =========================================================================

\* lines 34-35, TestCamera.__init__: no camera -> message box and sys.exit(1);
\* otherwise QCamera(cameras[0]) is started, with no prompt
other_TestCamera_init ==
  /\ app = "other" /\ pc = "main"
  /\ \E cameras \in VideoLists :
       IF cameras = <<>>
         THEN /\ h' = [h EXCEPT !.listed = @ \cup {"video"},
                                !.reported = @ \cup {"no video devices"}]
              /\ pc' = "exited"
              /\ UNCHANGED <<cap, win>>
         ELSE /\ h' = [h EXCEPT !.listed = @ \cup {"video"}, !.videoOpens = @ + 1]
              /\ cap' = "open"
              /\ win' = [win EXCEPT !.main = "hidden"]
              /\ pc' = "ot_show"
  /\ UNCHANGED <<app, loc, stack, quit, log, vt, at, stream, mixer, pending, alive>>

\* lines 36-37: window.show(); app.exec_()
other_show ==
  /\ app = "other" /\ pc = "ot_show"
  /\ win' = [win EXCEPT !.main = "visible"]
  /\ pc' = "exec"
  /\ UNCHANGED <<app, loc, stack, quit, log, threadVars, h>>

\* lines 29-31, camera_error: message box, sys.exit(1)
other_camera_error ==
  /\ app = "other" /\ pc = "exec" /\ ~quit
  /\ h' = [h EXCEPT !.reported = @ \cup {"camera error"}, !.error = "camera error"]
  /\ pc' = "exited"
  /\ UNCHANGED <<app, loc, uiVars, threadVars>>

\* the user closes the TestCamera window: QWidget's own closeEvent accepts,
\* and the application quits as its last window closed
other_user_close ==
  /\ app = "other" /\ pc = "exec" /\ ~quit /\ win.main = "visible"
  /\ win' = [win EXCEPT !.main = "closed"]
  /\ quit' = TRUE
  /\ h' = [h EXCEPT !.userCloses = @ + 1]
  /\ UNCHANGED <<app, pc, loc, stack, log, threadVars>>

\* =========================================================================
\* capture_app.main
\* =========================================================================

\* lines 162-165: list the video devices; none -> print and return
capture_app_list_video ==
  /\ app = "capture_app" /\ pc = "main"
  /\ \E video_devices \in VideoLists :
       /\ loc' = [loc EXCEPT !.video_devices = video_devices]
       /\ IF video_devices = <<>>
            THEN /\ pc' = "exited"
                 /\ h' = [h EXCEPT !.listed = @ \cup {"video"},
                                   !.reported = @ \cup {"no video devices"}]
            ELSE /\ pc' = "ca_prompt_video"
                 /\ h' = [h EXCEPT !.listed = @ \cup {"video"}]
  /\ UNCHANGED <<app, uiVars, threadVars>>

\* line 166: prompt_selection(len(video_devices), "video"), one typed line
capture_app_prompt_video ==
  /\ app = "capture_app" /\ pc = "ca_prompt_video"
  /\ \E line \in InputLines :
       LET choice == prompt_selection(Len(loc.video_devices), line)
       IN IF choice = None
            THEN /\ loc' = [loc EXCEPT !.lastInput = line]
                 /\ UNCHANGED <<pc, h>>
            ELSE /\ loc' = [loc EXCEPT !.lastInput = line, !.video_choice = choice]
                 /\ pc' = "ca_list_audio"
                 /\ h' = [h EXCEPT !.prompts = @ + 1]
  /\ UNCHANGED <<app, uiVars, threadVars>>

\* lines 168-171: list the matching audio inputs; none -> print and return
capture_app_list_audio ==
  /\ app = "capture_app" /\ pc = "ca_list_audio"
  /\ \E devices \in SdLists :
       LET r == capture_app_list_audio_input_devices_filtered(devices)
       IN /\ loc' = [loc EXCEPT !.audio_devices = r.devices, !.audio_names = r.names,
                                !.audio_positions = filtered_positions(devices),
                                !.lastInput = NoLine]
          /\ IF r.devices = <<>>
               THEN /\ pc' = "exited"
                    /\ h' = [h EXCEPT !.listed = @ \cup {"audio"},
                                      !.reported = @ \cup {"no audio devices"}]
               ELSE /\ pc' = "ca_prompt_audio"
                    /\ h' = [h EXCEPT !.listed = @ \cup {"audio"}]
  /\ UNCHANGED <<app, uiVars, threadVars>>

\* line 172: prompt_selection(len(audio_devices), "audio input"), one typed line
capture_app_prompt_audio ==
  /\ app = "capture_app" /\ pc = "ca_prompt_audio"
  /\ \E line \in InputLines :
       LET choice == prompt_selection(Len(loc.audio_devices), line)
       IN IF choice = None
            THEN /\ loc' = [loc EXCEPT !.lastInput = line]
                 /\ UNCHANGED <<pc, h>>
            ELSE /\ loc' = [loc EXCEPT !.lastInput = line, !.audio_choice = choice]
                 /\ pc' = "ca_index"
                 /\ h' = [h EXCEPT !.prompts = @ + 1]
  /\ UNCHANGED <<app, uiVars, threadVars>>

\* lines 175-178: the second sd.query_devices() and all_devices.index(...);
\* index() raises ValueError, which nothing catches, when no record is equal
capture_app_device_index ==
  /\ app = "capture_app" /\ pc = "ca_index"
  /\ \E all_devices \in SdLists :
       LET i == ListIndex(all_devices, At(loc.audio_devices, loc.audio_choice))
       IN /\ loc' = [loc EXCEPT !.audio_choice_device_index = i, !.lastInput = NoLine]
          /\ IF i = None
               THEN /\ pc' = "exited"
                    /\ h' = [h EXCEPT !.error = "ValueError"]
               ELSE /\ pc' = "ca_start_audio"
                    /\ UNCHANGED h
  /\ UNCHANGED <<app, uiVars, threadVars>>

\* lines 180-183: QApplication, AudioStream(index), audio_thread.start()
capture_app_start_audio ==
  /\ app = "capture_app" /\ pc = "ca_start_audio"
  /\ at' = [kind |-> "sd", pc |-> "start", running |-> TRUE,
            device_index |-> loc.audio_choice_device_index, api |-> ""]
  /\ alive' = [alive EXCEPT !.audio = @ + 1]
  /\ pc' = "ca_window"
  /\ UNCHANGED <<app, loc, uiVars, vt, cap, stream, mixer, pending, h>>

\* variant: the video thread is started once more when the window is built
CaptureWindow_init_twice(video_index) ==
  /\ vt' = [pc |-> "start", running |-> TRUE, device_index |-> video_index]
  /\ alive' = [alive EXCEPT !.video = @ + 2]
  /\ win' = [win EXCEPT !.main = "hidden"]

\* CaptureWindow.__init__ (capture_app 86-102, guiver 204-225): the window is
\* built and its VideoThread created, connected and started
CaptureWindow_init(video_index) ==
  /\ vt' = [pc |-> "start", running |-> TRUE, device_index |-> video_index]
  /\ alive' = [alive EXCEPT !.video = @ + 1]
  /\ win' = [win EXCEPT !.main = "hidden"]

\* line 185: window = CaptureWindow(video_choice, audio_thread); the lists and
\* choices of main are read by no later statement
capture_app_window ==
  /\ app = "capture_app" /\ pc = "ca_window"
  /\ CaptureWindow_init(loc.video_choice)
  /\ loc' = InitLoc
  /\ pc' = "ca_show"
  /\ UNCHANGED <<app, stack, quit, log, cap, at, stream, mixer, pending, h>>

\* lines 186-188: window.show(); app.exec_()
capture_app_show ==
  /\ app = "capture_app" /\ pc = "ca_show"
  /\ win' = [win EXCEPT !.main = "visible"]
  /\ pc' = "exec"
  /\ UNCHANGED <<app, loc, stack, quit, log, threadVars, h>>

\* =========================================================================
\* guiver/main.main
\* =========================================================================

\* variant: the message is shown but main goes on
guiver_list_video_noexit ==
  /\ app = "guiver" /\ pc = "main"
  /\ win' = [win EXCEPT !.dbg = "visible"]
  /\ \E video_devices \in VideoLists :
       /\ loc' = [loc EXCEPT !.video_devices = video_devices]
       /\ pc' = "gv_list_audio"
       /\ h' = IF video_devices = <<>>
                 THEN [h EXCEPT !.listed = @ \cup {"video"},
                                !.reported = @ \cup {"no video devices"}]
                 ELSE [h EXCEPT !.listed = @ \cup {"video"}]
  /\ UNCHANGED <<app, stack, quit, log, threadVars>>

\* lines 331-339: QApplication, the debug window is shown, the video devices
\* are listed; none -> message in the debug window and sys.exit(1)
guiver_list_video ==
  /\ app = "guiver" /\ pc = "main"
  /\ win' = [win EXCEPT !.dbg = "visible"]
  /\ \E video_devices \in VideoLists :
       /\ loc' = [loc EXCEPT !.video_devices = video_devices]
       /\ IF video_devices = <<>>
            THEN /\ pc' = "exited"
                 /\ h' = [h EXCEPT !.listed = @ \cup {"video"},
                                   !.reported = @ \cup {"no video devices"}]
            ELSE /\ pc' = "gv_prompt_video"
                 /\ h' = [h EXCEPT !.listed = @ \cup {"video"}]
  /\ UNCHANGED <<app, stack, quit, log, threadVars>>

\* prompt_selection_gui (316-324): the dialog returns the text of the item the
\* user picked (ok) or is cancelled; the index is parsed back from the text
prompt_selection_gui(options, k, ok) ==
  LET items == gui_items(options)
      item == IF ok THEN items[k] ELSE <<>>
  IN IF ok /\ item # <<>> THEN gui_choice(item) ELSE None

\* line 340: video_choice = prompt_selection_gui(video_devices, "video")
guiver_prompt_video ==
  /\ app = "guiver" /\ pc = "gv_prompt_video"
  /\ \E k \in 1..Len(loc.video_devices), ok \in BOOLEAN :
       LET choice == prompt_selection_gui(loc.video_devices, k, ok)
       IN IF choice = None
            THEN /\ pc' = "exited"
                 /\ h' = [h EXCEPT !.reported = @ \cup {"no selection"}]
                 /\ UNCHANGED loc
            ELSE /\ pc' = "gv_list_audio"
                 /\ loc' = [loc EXCEPT !.video_choice = choice]
                 /\ h' = [h EXCEPT !.prompts = @ + 1]
  /\ UNCHANGED <<app, uiVars, threadVars>>

\* lines 343-365: the rtmixer list, the sounddevice list and the combined
\* list; the enumeration mixers are closed again inside the listing; an empty
\* combined list -> message and sys.exit(1)
guiver_list_audio ==
  /\ app = "guiver" /\ pc = "gv_list_audio"
  /\ \E installed \in BOOLEAN, rtenv \in RtEnvs, devices \in SdLists :
       /\ installed \/ rtenv = NoRtEnv
       /\ LET rt == list_rtmixer_devices_by_apis(installed, rtenv)
              fb == guiver_list_audio_input_devices_filtered(devices, HostApis)
              names == all_audio_names_of(rt.names, fb.names)
          IN /\ loc' = [loc EXCEPT !.rtmixer_names = rt.names,
                                   !.rtmixer_indices = rt.indices,
                                   !.rtmixer_apis = rt.apis,
                                   !.fallback_names = fb.names,
                                   !.fallback_indices = fb.indices,
                                   !.all_audio_names = names,
                                   !.device_source = device_source_of(rt.names, fb.names)]
             /\ IF names = <<>>
                  THEN /\ pc' = "exited"
                       /\ h' = [h EXCEPT !.listed = @ \cup {"audio"},
                                         !.reported = @ \cup {"no audio devices"}]
                  ELSE /\ pc' = "gv_prompt_audio"
                       /\ h' = [h EXCEPT !.listed = @ \cup {"audio"}]
  /\ UNCHANGED <<app, uiVars, threadVars>>

\* variant: a cancelled dialog falls back to the first entry
guiver_prompt_audio_default ==
  /\ app = "guiver" /\ pc = "gv_prompt_audio"
  /\ \E k \in 1..Len(loc.all_audio_names), ok \in BOOLEAN :
       LET choice == prompt_selection_gui(loc.all_audio_names, k, ok)
       IN IF choice = None
            THEN /\ pc' = "gv_make_audio"
                 /\ loc' = [loc EXCEPT !.audio_choice = 0]
                 /\ UNCHANGED h
            ELSE /\ pc' = "gv_make_audio"
                 /\ loc' = [loc EXCEPT !.audio_choice = choice]
                 /\ h' = [h EXCEPT !.prompts = @ + 1]
  /\ UNCHANGED <<app, uiVars, threadVars>>

\* line 367: audio_choice = prompt_selection_gui(all_audio_names, "audio input")
guiver_prompt_audio ==
  /\ app = "guiver" /\ pc = "gv_prompt_audio"
  /\ \E k \in 1..Len(loc.all_audio_names), ok \in BOOLEAN :
       LET choice == prompt_selection_gui(loc.all_audio_names, k, ok)
       IN IF choice = None
            THEN /\ pc' = "exited"
                 /\ h' = [h EXCEPT !.reported = @ \cup {"no selection"}]
                 /\ UNCHANGED loc
            ELSE /\ pc' = "gv_make_audio"
                 /\ loc' = [loc EXCEPT !.audio_choice = choice]
                 /\ h' = [h EXCEPT !.prompts = @ + 1]
  /\ UNCHANGED <<app, uiVars, threadVars>>

\* a Python subscript i of a list of length n that does not raise IndexError
PyLenOk(n, i) == 0 - n <= i /\ i < n

PyIndexOk(list, i) == PyLenOk(Len(list), i)

\* list[i] with Python's wrap-around of negative subscripts
PyAt(list, i) == IF i < 0 THEN list[Len(list) + i + 1] ELSE list[i + 1]

\* the subscripts main (369-375) applies for an audio choice: the length of
\* the list each one reads, and the position
audio_subscripts(l) ==
  IF ~PyIndexOk(l.device_source, l.audio_choice) THEN <<>>
  ELSE IF PyAt(l.device_source, l.audio_choice) = "rtmixer"
    THEN <<[len |-> Len(l.rtmixer_indices), i |-> l.audio_choice],
           [len |-> Len(l.rtmixer_apis), i |-> l.audio_choice]>>
    ELSE <<[len |-> Len(l.fallback_indices), i |-> l.audio_choice - Len(l.rtmixer_indices)]>>

\* lines 369-380: the audio thread for the choice is created, connected to the
\* debug window and started; a subscript out of range raises IndexError
guiver_make_audio ==
  /\ app = "guiver" /\ pc = "gv_make_audio"
  /\ IF /\ PyIndexOk(loc.device_source, loc.audio_choice)
        /\ \A s \in Range(audio_subscripts(loc)) : PyLenOk(s.len, s.i)
       THEN /\ at' = IF PyAt(loc.device_source, loc.audio_choice) = "rtmixer"
                       THEN [kind |-> "rt", pc |-> "start", running |-> TRUE,
                             device_index |-> PyAt(loc.rtmixer_indices, loc.audio_choice),
                             api |-> PyAt(loc.rtmixer_apis, loc.audio_choice)]
                       ELSE [kind |-> "sd", pc |-> "start", running |-> TRUE,
                             device_index |->
                               PyAt(loc.fallback_indices,
                                    loc.audio_choice - Len(loc.rtmixer_indices)),
                             api |-> ""]
            /\ alive' = [alive EXCEPT !.audio = @ + 1]
            /\ pc' = "gv_window"
            /\ UNCHANGED h
       ELSE /\ pc' = "exited"
            /\ h' = [h EXCEPT !.error = "IndexError"]
            /\ UNCHANGED <<at, alive>>
  /\ UNCHANGED <<app, loc, uiVars, vt, cap, stream, mixer, pending>>

\* lines 382-385: window = CaptureWindow(video_choice, audio_thread,
\* debug_window); the two windows get a reference to each other
guiver_window ==
  /\ app = "guiver" /\ pc = "gv_window"
  /\ CaptureWindow_init(loc.video_choice)
  /\ loc' = InitLoc
  /\ pc' = "gv_show"
  /\ UNCHANGED <<app, stack, quit, log, cap, at, stream, mixer, pending, h>>

\* lines 387-389: window.show(); app.exec_()
guiver_show ==
  /\ app = "guiver" /\ pc = "gv_show"
  /\ win' = [win EXCEPT !.main = "visible"]
  /\ pc' = "exec"
  /\ UNCHANGED <<app, loc, stack, quit, log, threadVars, h>>

\* =========================================================================
\* signals from the workers to the UI thread
\* =========================================================================

\* the window whose slot a signal is connected to has been closed
TargetClosed(kind) == IF kind = "pixmap" THEN win.main = "closed" ELSE win.dbg = "closed"

\* the signals of guiver; capture_app has change_pixmap only and prints the rest
Connected(kind) == kind = "pixmap" \/ app = "guiver"

\* pending after emitting d debug, p change_pixmap and f fps_updated signals
Emitted(d, p, f) ==
  [pixmap |-> pending.pixmap + p,
   debug |-> pending.debug + (IF Connected("debug") THEN d ELSE 0),
   fps |-> pending.fps + (IF Connected("fps") THEN f ELSE 0)]

\* some signal of such an emission goes to a window that is closed already
Late(d, p, f) ==
  \/ p > 0 /\ TargetClosed("pixmap")
  \/ d > 0 /\ Connected("debug") /\ TargetClosed("debug")
  \/ f > 0 /\ Connected("fps") /\ TargetClosed("fps")

Capturing == app \in {"capture_app", "guiver"}

\* =========================================================================
\* VideoThread.run (capture_app 45-78, guiver 142-194)
\* =========================================================================

\* the CAP_DSHOW attempt (capture_app 46-47, guiver 143-144)
VideoThread_run_dshow ==
  /\ Capturing /\ Running /\ vt.pc = "start"
  /\ \E ok \in BOOLEAN :
       /\ cap' = IF ok THEN "open" ELSE "unopened"
       /\ h' = [h EXCEPT !.attempts = Append(@, [backend |-> "CAP_DSHOW", opened |-> ok]),
                         !.videoOpens = @ + (IF ok THEN 1 ELSE 0),
                         !.lateEmit = @ \/ Late(1, 0, 0)]
  /\ pending' = Emitted(1, 0, 0)
  /\ vt' = [vt EXCEPT !.pc = "fallback"]
  /\ UNCHANGED <<app, pc, loc, uiVars, at, stream, mixer, alive>>

\* variant: CAP_MSMF is tried whatever CAP_DSHOW gave
VideoThread_run_msmf_always ==
  /\ Capturing /\ Running /\ vt.pc = "fallback"
  /\ \E ok \in BOOLEAN :
       /\ cap' = IF ok THEN "open" ELSE "unopened"
       /\ h' = [h EXCEPT !.attempts = Append(@, [backend |-> "CAP_MSMF", opened |-> ok]),
                         !.videoOpens = @ + (IF ok THEN 1 ELSE 0),
                         !.lateEmit = @ \/ Late(1, 0, 0)]
       /\ pending' = Emitted(1, 0, 0)
  /\ vt' = [vt EXCEPT !.pc = "opened?", !.device_index = None]
  /\ UNCHANGED <<app, pc, loc, uiVars, at, stream, mixer, alive>>

\* the CAP_MSMF attempt, made when CAP_DSHOW did not open
\* (capture_app 48-50, guiver 145-147); the messages after it are the last
\* readers of self.device_index, which the model forgets here
VideoThread_run_msmf ==
  /\ Capturing /\ Running /\ vt.pc = "fallback"
  /\ IF cap # "open"
       THEN \E ok \in BOOLEAN :
              /\ cap' = IF ok THEN "open" ELSE "unopened"
              /\ h' = [h EXCEPT !.attempts = Append(@, [backend |-> "CAP_MSMF", opened |-> ok]),
                                !.videoOpens = @ + (IF ok THEN 1 ELSE 0),
                                !.lateEmit = @ \/ Late(1, 0, 0)]
              /\ pending' = Emitted(1, 0, 0)
       ELSE UNCHANGED <<cap, h, pending>>
  /\ vt' = [vt EXCEPT !.pc = "opened?", !.device_index = None]
  /\ UNCHANGED <<app, pc, loc, uiVars, at, stream, mixer, alive>>

\* variant: a failed open ends the process
VideoThread_run_check_exits ==
  /\ Capturing /\ Running /\ vt.pc = "opened?"
  /\ IF cap # "open"
       THEN /\ vt' = [vt EXCEPT !.pc = "done"]
            /\ alive' = [alive EXCEPT !.video = @ - 1]
            /\ pc' = "exited"
            /\ h' = [h EXCEPT !.reported = @ \cup {"video open failed"},
                              !.lateEmit = @ \/ Late(1, 0, 0)]
            /\ pending' = Emitted(1, 0, 0)
       ELSE /\ vt' = [vt EXCEPT !.pc = "loop"]
            /\ h' = [h EXCEPT !.lateEmit = @ \/ Late(5, 0, 0)]
            /\ pending' = Emitted(5, 0, 0)
            /\ UNCHANGED <<alive, pc>>
  /\ UNCHANGED <<app, loc, uiVars, cap, at, stream, mixer>>

\* neither backend opened: report and return; otherwise the size and rate
\* are requested and reported (capture_app 51-63, guiver 148-166)
VideoThread_run_check ==
  /\ Capturing /\ Running /\ vt.pc = "opened?"
  /\ IF cap # "open"
       THEN /\ vt' = [vt EXCEPT !.pc = "done"]
            /\ alive' = [alive EXCEPT !.video = @ - 1]
            /\ h' = [h EXCEPT !.reported = @ \cup {"video open failed"},
                              !.lateEmit = @ \/ Late(1, 0, 0)]
            /\ pending' = Emitted(1, 0, 0)
       ELSE /\ vt' = [vt EXCEPT !.pc = "loop"]
            /\ h' = [h EXCEPT !.lateEmit = @ \/ Late(5, 0, 0)]
            /\ pending' = Emitted(5, 0, 0)
            /\ UNCHANGED alive
  /\ UNCHANGED <<app, pc, loc, uiVars, cap, at, stream, mixer>>

\* variant: the loop tests cap.isOpened() only
VideoThread_run_loop_deaf ==
  /\ Capturing /\ Running /\ vt.pc = "loop"
  /\ h.reads < MaxReads
  /\ vt' = [vt EXCEPT !.pc = IF cap = "open" THEN "read" ELSE "release"]
  /\ UNCHANGED <<app, pc, loc, uiVars, cap, at, stream, mixer, pending, alive, h>>

\* while self.running and cap.isOpened() (capture_app 65, guiver 168)
VideoThread_run_loop ==
  /\ Capturing /\ Running /\ vt.pc = "loop"
  /\ ~vt.running \/ h.reads < MaxReads
  /\ vt' = [vt EXCEPT !.pc = IF vt.running /\ cap = "open" THEN "read" ELSE "release"]
  /\ UNCHANGED <<app, pc, loc, uiVars, cap, at, stream, mixer, pending, alive, h>>

\* one pass of the loop body: cap.read(); no frame -> msleep and continue;
\* a frame -> (guiver: fps_updated and a low-FPS warning once a second has
\* passed) change_pixmap.emit (capture_app 66-75, guiver 169-191)
VideoThread_run_read ==
  /\ Capturing /\ Running /\ vt.pc = "read"
  /\ \E ret \in BOOLEAN, second \in BOOLEAN, low \in BOOLEAN :
       LET f == IF ret /\ second /\ app = "guiver" THEN 1 ELSE 0
           d == IF f = 1 /\ low THEN 1 ELSE 0
           p == IF ret THEN 1 ELSE 0
       IN /\ pending' = Emitted(d, p, f)
          /\ h' = [h EXCEPT !.reads = @ + 1,
                            !.frames = @ + p,
                            !.readsAfterStop = @ + (IF vt.running THEN 0 ELSE 1),
                            !.lateEmit = @ \/ Late(d, p, f)]
  /\ vt' = [vt EXCEPT !.pc = "loop"]
  /\ UNCHANGED <<app, pc, loc, uiVars, cap, at, stream, mixer, alive>>

\* cap.release() and the last message (capture_app 77-78, guiver 193-194)
VideoThread_run_release ==
  /\ Capturing /\ Running /\ vt.pc = "release"
  /\ cap' = "released"
  /\ pending' = Emitted(1, 0, 0)
  /\ h' = [h EXCEPT !.lateEmit = @ \/ Late(1, 0, 0)]
  /\ vt' = [vt EXCEPT !.pc = "done"]
  /\ alive' = [alive EXCEPT !.video = @ - 1]
  /\ UNCHANGED <<app, pc, loc, uiVars, at, stream, mixer>>

VideoStep ==
  \/ VideoThread_run_dshow
  \/ VideoThread_run_msmf
  \/ VideoThread_run_check
  \/ VideoThread_run_loop
  \/ VideoThread_run_read
  \/ VideoThread_run_release

\* =========================================================================
\* AudioStream.run (capture_app 16-29) and AudioStreamSD.run (guiver 60-73)
\* =========================================================================

\* the stream is opened by the with statement; an exception is caught,
\* reported, and run returns (capture_app 22-25 and 28-29, guiver 66-69, 72-73);
\* this is the last reader of self.device_index, which the model forgets here
AudioStreamSD_run_open ==
  /\ Capturing /\ Running /\ at.kind = "sd" /\ at.pc = "start"
  /\ \E ok \in BOOLEAN :
       IF ok
         THEN /\ stream' = "open"
              /\ at' = [at EXCEPT !.pc = "loop", !.device_index = None]
              /\ h' = [h EXCEPT !.audioOpens = @ + 1, !.lateEmit = @ \/ Late(2, 0, 0)]
              /\ pending' = Emitted(2, 0, 0)
              /\ UNCHANGED alive
         ELSE /\ at' = [at EXCEPT !.pc = "done", !.device_index = None]
              /\ alive' = [alive EXCEPT !.audio = @ - 1]
              /\ h' = [h EXCEPT !.reported = @ \cup {"audio stream error"},
                                !.lateEmit = @ \/ Late(2, 0, 0)]
              /\ pending' = Emitted(2, 0, 0)
              /\ UNCHANGED stream
  /\ UNCHANGED <<app, pc, loc, uiVars, vt, cap, mixer>>

\* while self.running: sd.sleep(100); leaving the with block closes the
\* stream and run returns (capture_app 26-27, guiver 70-71)
AudioStreamSD_run_loop ==
  /\ Capturing /\ Running /\ at.kind = "sd" /\ at.pc = "loop"
  /\ IF at.running
       THEN UNCHANGED vars
       ELSE /\ stream' = "closed"
            /\ at' = [at EXCEPT !.pc = "done"]
            /\ alive' = [alive EXCEPT !.audio = @ - 1]
            /\ UNCHANGED <<app, pc, loc, uiVars, vt, cap, mixer, pending, h>>

\* the stream's callback with a status to report (capture_app 17-20, guiver 61-64)
AudioStreamSD_callback_status ==
  /\ Capturing /\ Running /\ stream = "open"
  /\ h.status < MaxStatus
  /\ pending' = Emitted(1, 0, 0)
  /\ h' = [h EXCEPT !.status = @ + 1, !.lateEmit = @ \/ Late(1, 0, 0)]
  /\ UNCHANGED <<app, pc, loc, uiVars, vt, cap, at, stream, mixer, alive>>

\* =========================================================================
\* AudioStreamRTMixer (guiver 83-127).  rtmixer is installed whenever an
\* rtmixer device could be chosen, so the branch of lines 101-103 is not taken.
\* =========================================================================

\* line 105
AudioStreamRTMixer_run_start ==
  /\ Running /\ at.kind = "rt" /\ at.pc = "start"
  /\ at' = [at EXCEPT !.pc = "create"]
  /\ pending' = Emitted(1, 0, 0)
  /\ h' = [h EXCEPT !.lateEmit = @ \/ Late(1, 0, 0)]
  /\ UNCHANGED <<app, pc, loc, uiVars, vt, cap, stream, mixer, alive>>

\* the run of AudioStreamRTMixer ends on an exception (lines 118-119)
RtRaise ==
  /\ at' = [at EXCEPT !.pc = "done", !.device_index = None, !.api = ""]
  /\ alive' = [alive EXCEPT !.audio = @ - 1]
  /\ pending' = Emitted(1, 0, 0)
  /\ h' = [h EXCEPT !.reported = @ \cup {"audio stream error"},
                    !.lateEmit = @ \/ Late(1, 0, 0)]

\* lines 108-113: self.mixer = rtmixer.RtMixer(...), the last reader of
\* self.device_index and self.api, which the model forgets here
AudioStreamRTMixer_run_create ==
  /\ Running /\ at.kind = "rt" /\ at.pc = "create"
  /\ \E ok \in BOOLEAN :
       IF ok
         THEN /\ mixer' = "created"
              /\ at' = [at EXCEPT !.pc = "start_stream", !.device_index = None, !.api = ""]
              /\ UNCHANGED <<pending, alive, h>>
         ELSE RtRaise /\ UNCHANGED mixer
  /\ UNCHANGED <<app, pc, loc, uiVars, vt, cap, stream>>

\* lines 114-115: self.mixer.start_stream(self.audio_callback)
AudioStreamRTMixer_run_start_stream ==
  /\ Running /\ at.kind = "rt" /\ at.pc = "start_stream"
  /\ \E ok \in BOOLEAN :
       IF ok
         THEN /\ mixer' = "running"
              /\ at' = [at EXCEPT !.pc = "loop"]
              /\ pending' = Emitted(1, 0, 0)
              /\ h' = [h EXCEPT !.audioOpens = @ + 1, !.lateEmit = @ \/ Late(1, 0, 0)]
              /\ UNCHANGED alive
         ELSE RtRaise /\ UNCHANGED mixer
  /\ UNCHANGED <<app, pc, loc, uiVars, vt, cap, stream>>

\* lines 116-117: while self.running and self.mixer.is_stream_running();
\* asked of a mixer that stop() has closed, is_stream_running answers False
\* or raises
AudioStreamRTMixer_run_loop ==
  /\ Running /\ at.kind = "rt" /\ at.pc = "loop"
  /\ IF at.running /\ mixer = "running"
       THEN UNCHANGED vars
       ELSE /\ \E raises \in BOOLEAN :
                 IF raises /\ at.running /\ mixer = "closed"
                   THEN RtRaise
                   ELSE /\ at' = [at EXCEPT !.pc = "done"]
                        /\ alive' = [alive EXCEPT !.audio = @ - 1]
                        /\ UNCHANGED <<pending, h>>
            /\ UNCHANGED <<app, pc, loc, uiVars, vt, cap, stream, mixer>>

\* the rtmixer stream ends on its own
RtMixer_stream_ends ==
  /\ Running /\ mixer = "running"
  /\ mixer' = "stopped"
  /\ UNCHANGED <<app, pc, loc, uiVars, vt, cap, at, stream, pending, alive, h>>

\* lines 93-98, audio_callback with a status to report
AudioStreamRTMixer_audio_callback_status ==
  /\ Running /\ mixer = "running"
  /\ h.status < MaxStatus
  /\ pending' = Emitted(1, 0, 0)
  /\ h' = [h EXCEPT !.status = @ + 1, !.lateEmit = @ \/ Late(1, 0, 0)]
  /\ UNCHANGED <<app, pc, loc, uiVars, vt, cap, at, stream, mixer, alive>>

AudioStep ==
  \/ AudioStreamSD_run_open
  \/ AudioStreamSD_run_loop
  \/ AudioStreamRTMixer_run_start
  \/ AudioStreamRTMixer_run_create
  \/ AudioStreamRTMixer_run_start_stream
  \/ AudioStreamRTMixer_run_loop

\* =========================================================================
\* the UI thread inside app.exec_(): close events and slots
\* =========================================================================
InLoop == Capturing /\ pc = "exec"

Idle == InLoop /\ stack = <<>> /\ ~quit

Top == stack[Len(stack)]

Below == SubSeq(stack, 1, Len(stack) - 1)

InFrame(f) == InLoop /\ stack # <<>> /\ Top = f

\* QWidget.close() of window w, called with `base` as the frames that stay:
\* Qt sends the close event, and so runs closeEvent, unless the widget is
\* being closed already, and hides the widget if the event was accepted
QWidget_close(w, base) ==
  IF (IF w = "main" THEN win.mainClosing ELSE win.dbgClosing)
    THEN [stack |-> base, win |-> win]
    ELSE [stack |-> Append(base, IF w = "main" THEN "cw_stop_video" ELSE "dw_close_capture"),
          win |-> IF w = "main" THEN [win EXCEPT !.mainClosing = TRUE]
                                ELSE [win EXCEPT !.dbgClosing = TRUE]]

\* the user closes the capture window
user_close_capture ==
  /\ Idle /\ win.main = "visible"
  /\ LET r == QWidget_close("main", stack)
     IN stack' = r.stack /\ win' = r.win
  /\ h' = [h EXCEPT !.userCloses = @ + 1]
  /\ UNCHANGED <<app, pc, loc, quit, log, threadVars>>

\* the user closes the debug window
user_close_debug ==
  /\ Idle /\ win.dbg = "visible"
  /\ LET r == QWidget_close("dbg", stack)
     IN stack' = r.stack /\ win' = r.win
  /\ h' = [h EXCEPT !.userCloses = @ + 1]
  /\ UNCHANGED <<app, pc, loc, quit, log, threadVars>>

\* VideoThread.stop, first half: self.running = False
\* (capture_app 109-110 and 81, guiver 232-233 and 197)
CaptureWindow_closeEvent_stop_video ==
  /\ InFrame("cw_stop_video")
  /\ vt' = [vt EXCEPT !.running = FALSE]
  /\ h' = [h EXCEPT !.vstops = @ + 1]
  /\ log' = Append(log, "video.stop")
  /\ stack' = Append(Below, "cw_join_video")
  /\ UNCHANGED <<app, pc, loc, win, quit, cap, at, stream, mixer, pending, alive>>

\* variant: stop() does not wait for the thread
CaptureWindow_closeEvent_join_video_nowait ==
  /\ InFrame("cw_join_video")
  /\ log' = Append(log, "video.joined")
  /\ stack' = Append(Below, "cw_stop_audio")
  /\ UNCHANGED <<app, pc, loc, win, quit, threadVars, h>>

\* VideoThread.stop, second half: self.wait() returns once run has returned
\* (capture_app 82, guiver 198)
CaptureWindow_closeEvent_join_video ==
  /\ InFrame("cw_join_video")
  /\ vt.pc = "done"
  /\ log' = Append(log, "video.joined")
  /\ stack' = Append(Below, "cw_stop_audio")
  /\ UNCHANGED <<app, pc, loc, win, quit, threadVars, h>>

\* audio_thread.stop(), first statement: self.running = False
\* (capture_app 111-112 and 32, guiver 234-235 and 76 or 122)
CaptureWindow_closeEvent_stop_audio ==
  /\ InFrame("cw_stop_audio")
  /\ at' = [at EXCEPT !.running = FALSE]
  /\ h' = [h EXCEPT !.astops = @ + 1]
  /\ log' = Append(log, "audio.stop")
  /\ stack' = Append(Below, IF at.kind = "rt" THEN "rt_stop_check" ELSE "cw_join_audio")
  /\ UNCHANGED <<app, pc, loc, win, quit, vt, cap, stream, mixer, pending, alive>>

\* AudioStreamRTMixer.stop line 123: is there a mixer whose stream runs?
AudioStreamRTMixer_stop_check ==
  /\ InFrame("rt_stop_check")
  /\ stack' = Append(Below, IF mixer = "running" THEN "rt_stop_stream" ELSE "cw_join_audio")
  /\ UNCHANGED <<app, pc, loc, win, quit, log, threadVars, h>>

\* AudioStreamRTMixer.stop line 124: self.mixer.stop_stream()
AudioStreamRTMixer_stop_stream ==
  /\ InFrame("rt_stop_stream")
  /\ mixer' = "stopped"
  /\ stack' = Append(Below, "rt_close")
  /\ UNCHANGED <<app, pc, loc, win, quit, log, vt, cap, at, stream, pending, alive, h>>

\* AudioStreamRTMixer.stop line 125: self.mixer.close()
AudioStreamRTMixer_stop_close ==
  /\ InFrame("rt_close")
  /\ mixer' = "closed"
  /\ stack' = Append(Below, "cw_join_audio")
  /\ UNCHANGED <<app, pc, loc, win, quit, log, vt, cap, at, stream, pending, alive, h>>

\* the end of audio_thread.stop() and audio_thread.wait(): quit() and wait()
\* return once run has returned (capture_app 33-34 and 113, guiver 77-78 or
\* 126-127 and 236)
CaptureWindow_closeEvent_join_audio ==
  /\ InFrame("cw_join_audio")
  /\ at.pc = "done"
  /\ log' = Append(log, "audio.joined")
  /\ stack' = Append(Below, IF app = "guiver" THEN "cw_close_debug" ELSE "cw_quit")
  /\ UNCHANGED <<app, pc, loc, win, quit, threadVars, h>>

\* guiver 239-240: the debug window is closed if it is still visible
CaptureWindow_closeEvent_close_debug ==
  /\ InFrame("cw_close_debug")
  /\ LET r == IF win.dbg = "visible"
                THEN QWidget_close("dbg", Append(Below, "cw_quit"))
                ELSE [stack |-> Append(Below, "cw_quit"), win |-> win]
     IN stack' = r.stack /\ win' = r.win
  /\ UNCHANGED <<app, pc, loc, quit, log, threadVars, h>>

\* QApplication.quit(); event.accept(): the capture window is closed
\* (capture_app 114-116, guiver 242-243)
CaptureWindow_closeEvent_quit ==
  /\ InFrame("cw_quit")
  /\ quit' = TRUE
  /\ win' = [win EXCEPT !.main = "closed", !.mainClosing = FALSE]
  /\ log' = log \o <<"quit", "capture.accepted">>
  /\ stack' = Below
  /\ UNCHANGED <<app, pc, loc, threadVars, h>>

\* variant: the debug window does not close the capture window
DebugWindow_closeEvent_close_capture_skip ==
  /\ InFrame("dw_close_capture")
  /\ stack' = Append(Below, "dw_quit")
  /\ UNCHANGED <<app, pc, loc, win, quit, log, threadVars, h>>

\* DebugWindow.closeEvent lines 44-45: the capture window is closed if there
\* is one and it is visible
DebugWindow_closeEvent_close_capture ==
  /\ InFrame("dw_close_capture")
  /\ LET r == IF win.main = "visible"
                THEN QWidget_close("main", Append(Below, "dw_quit"))
                ELSE [stack |-> Append(Below, "dw_quit"), win |-> win]
     IN stack' = r.stack /\ win' = r.win
  /\ UNCHANGED <<app, pc, loc, quit, log, threadVars, h>>

\* DebugWindow.closeEvent lines 46-47: QApplication.quit(); event.accept()
DebugWindow_closeEvent_quit ==
  /\ InFrame("dw_quit")
  /\ quit' = TRUE
  /\ win' = [win EXCEPT !.dbg = "closed", !.dbgClosing = FALSE]
  /\ log' = log \o <<"quit", "debug.accepted">>
  /\ stack' = Below
  /\ UNCHANGED <<app, pc, loc, threadVars, h>>

\* a queued signal is delivered to its slot: update_image, append_message or
\* update_fps (capture_app 104-106, guiver 36-41 and 227-229)
deliver_signal ==
  /\ Idle
  /\ \E kind \in {"pixmap", "debug", "fps"} :
       /\ pending[kind] > 0
       /\ pending' = [pending EXCEPT ![kind] = @ - 1]
       /\ h' = [h EXCEPT !.lateDeliver = @ \/ TargetClosed(kind)]
  /\ UNCHANGED <<app, pc, loc, uiVars, vt, cap, at, stream, mixer, alive>>

\* app.exec_() returns once quit was called and the handler that called it
\* has returned; sys.exit ends the process (capture_app 188-191, guiver 389,
\* other 37)
exec_return ==
  /\ pc = "exec" /\ stack = <<>> /\ quit
  /\ pc' = "exited"
  /\ UNCHANGED <<app, loc, uiVars, threadVars, h>>

UiStep ==
  \/ CaptureWindow_closeEvent_stop_video
  \/ CaptureWindow_closeEvent_join_video
  \/ CaptureWindow_closeEvent_stop_audio
  \/ AudioStreamRTMixer_stop_check
  \/ AudioStreamRTMixer_stop_stream
  \/ AudioStreamRTMixer_stop_close
  \/ CaptureWindow_closeEvent_join_audio
  \/ CaptureWindow_closeEvent_close_debug
  \/ CaptureWindow_closeEvent_quit
  \/ DebugWindow_closeEvent_close_capture
  \/ DebugWindow_closeEvent_quit
  \/ deliver_signal
  \/ exec_return

\* the statements of a script's main that wait for nothing but the OS
MainStep ==
  \/ asiofinder_list_hostapis
  \/ asiofinder_find_asio
  \/ asiofinder_list_devices
  \/ other_TestCamera_init
  \/ other_show
  \/ capture_app_list_video
  \/ capture_app_list_audio
  \/ capture_app_device_index
  \/ capture_app_start_audio
  \/ capture_app_window
  \/ capture_app_show
  \/ guiver_list_video
  \/ guiver_list_audio
  \/ guiver_make_audio
  \/ guiver_window
  \/ guiver_show

\* what the user and the devices do
EnvStep ==
  \/ capture_app_prompt_video
  \/ capture_app_prompt_audio
  \/ guiver_prompt_video
  \/ guiver_prompt_audio
  \/ user_close_capture
  \/ user_close_debug
  \/ other_user_close
  \/ other_camera_error
  \/ AudioStreamSD_callback_status
  \/ AudioStreamRTMixer_audio_callback_status
  \/ RtMixer_stream_ends

Next == MainStep \/ EnvStep \/ VideoStep \/ AudioStep \/ UiStep

Spec == Init /\ [][Next]_vars

\* the scheduler runs every thread that can run; the user and the devices
\* owe nothing
LiveSpec == Spec /\ WF_vars(MainStep) /\ WF_vars(VideoStep) /\ WF_vars(AudioStep)
                 /\ WF_vars(UiStep)

\* =========================================================================
\* properties
\* =========================================================================
Happened(e) == \E i \in 1..Len(log) : log[i] = e

\* every occurrence of event b in the log has an event a before it
Precedes(a, b) ==
  \A i \in 1..Len(log) : log[i] = b => \E j \in 1..(i - 1) : log[j] = a

Count(e) == Cardinality({i \in 1..Len(log) : log[i] = e})

ThreadsCreated == vt.pc # "none" /\ at.pc # "none"

\* C1: closing the capture window tears down in the order video told to stop,
\* video thread finished, audio told to stop, audio thread finished, and only
\* then quit requested and the close accepted; the audio thread is never told
\* to stop before the video thread has finished, and the application neither
\* quits nor exits while a worker is still running.
C1_TeardownOrder ==
  Capturing =>
    /\ Precedes("video.stop", "video.joined")
    /\ Precedes("video.joined", "audio.stop")
    /\ Precedes("audio.stop", "audio.joined")
    /\ Precedes("audio.joined", "quit")
    /\ Precedes("quit", "capture.accepted")
    /\ Happened("video.joined") => vt.pc = "done"
    /\ Happened("audio.joined") => at.pc = "done"
    /\ (at.pc # "none" /\ ~at.running) => vt.pc = "done"
    /\ (quit \/ pc = "exited") => alive.video = 0 /\ alive.audio = 0
    /\ win.main = "closed" => quit /\ Happened("capture.accepted")

\* a capture_app session that showed a frame and was then closed
C1_Witness ==
  /\ app = "capture_app" /\ pc = "exited" /\ h.frames > 0
  /\ log = <<"video.stop", "video.joined", "audio.stop", "audio.joined",
             "quit", "capture.accepted">>

\* C2: no worker notification is emitted to, or delivered to a slot of, a
\* window that has been closed.
C2_NoNotificationAfterClose == ~h.lateEmit /\ ~h.lateDeliver

ErrorReported ==
  "video open failed" \in h.reported \/ "audio stream error" \in h.reported

\* C3 as stated: once a device open failure or a stream error has been
\* reported, the process exits.
C3_ErrorEndsProcess == ErrorReported ~> (pc = "exited")

\* C3 amended: a device open failure or a stream error is reported and ends
\* only the worker thread that met it (the video thread having emitted no
\* frame and holding no open capture); the process keeps running until the
\* user closes a window.
C3_ErrorEndsWorkerOnly ==
  /\ "video open failed" \in h.reported =>
        vt.pc = "done" /\ h.frames = 0 /\ cap # "open"
  /\ "audio stream error" \in h.reported => at.pc = "done" /\ stream # "open"
  /\ (ErrorReported /\ h.userCloses = 0) => Running /\ ~quit

\* both workers have failed and the window is still open
C3_Witness ==
  /\ "video open failed" \in h.reported /\ "audio stream error" \in h.reported
  /\ pc = "exec" /\ win.main = "visible" /\ h.userCloses = 0

NothingFound ==
  h.reported \cap {"no video devices", "no audio devices", "no selection"} # {}

\* C4: when no device is available or none is selected, the process has
\* exited and no worker thread, capture handle or audio stream was ever
\* created in that run.
C4_NoDeviceNoWorker ==
  NothingFound =>
    /\ pc = "exited"
    /\ vt.pc = "none" /\ at.pc = "none"
    /\ alive.video = 0 /\ alive.audio = 0
    /\ cap = "none" /\ stream = "none" /\ mixer = "none"
    /\ h.attempts = <<>> /\ h.videoOpens = 0 /\ h.audioOpens = 0
    /\ win.main = "none"

\* guiver found a video device and then no audio device
C4_Witness ==
  /\ app = "guiver" /\ "no audio devices" \in h.reported
  /\ h.prompts = 1 /\ pc = "exited"

Dshow(ok) == [backend |-> "CAP_DSHOW", opened |-> ok]

Msmf(ok) == [backend |-> "CAP_MSMF", opened |-> ok]

OpenDecided == vt.pc \in {"opened?", "loop", "read", "release", "done"}

\* C5: the video open is one two-backend fallback: CAP_DSHOW first, CAP_MSMF
\* exactly once and only if CAP_DSHOW did not open, each at most once; when
\* both fail the thread has returned without a read and without a frame.
C5_TwoBackendFallback ==
  Capturing =>
    /\ h.attempts \in {<<>>, <<Dshow(TRUE)>>, <<Dshow(FALSE)>>,
                       <<Dshow(FALSE), Msmf(TRUE)>>, <<Dshow(FALSE), Msmf(FALSE)>>}
    /\ vt.pc = "fallback" => Len(h.attempts) = 1
    /\ OpenDecided => /\ h.attempts # <<>>
                      /\ h.attempts[1].opened => Len(h.attempts) = 1
                      /\ ~h.attempts[1].opened => Len(h.attempts) = 2
    /\ h.attempts = <<Dshow(FALSE), Msmf(FALSE)>> =>
         /\ vt.pc \in {"opened?", "done"}
         /\ h.reads = 0 /\ h.frames = 0 /\ pending.pixmap = 0
         /\ cap = "unopened"
    /\ h.videoOpens = Cardinality({i \in 1..Len(h.attempts) : h.attempts[i].opened})

\* both backends failed and run has returned
C5_Witness ==
  /\ h.attempts = <<Dshow(FALSE), Msmf(FALSE)>> /\ vt.pc = "done"
  /\ "video open failed" \in h.reported

VideoStopped == vt.pc \notin {"none", "done"} /\ ~vt.running

SdStopped == at.kind = "sd" /\ at.pc \notin {"none", "done"} /\ ~at.running

\* C6: cancellation through the polled running flag always takes effect: once
\* stop() has cleared the flag the video thread makes at most one more read,
\* releases the capture it opened and finishes, so that stop() returns; the
\* sounddevice audio thread leaves its loop, closes its stream and finishes.
C6_CooperativeCancel ==
  /\ [](h.readsAfterStop <= 1)
  /\ [](vt.pc = "done" => cap \in {"unopened", "released"})
  /\ []((at.kind = "sd" /\ at.pc = "done") => stream \in {"none", "closed"})
  /\ (VideoStopped ~> (vt.pc = "done"))
  /\ (InFrame("cw_join_video") ~> InFrame("cw_stop_audio"))
  /\ (SdStopped ~> (at.pc = "done"))
  /\ ((InFrame("cw_join_audio") /\ at.kind = "sd") ~> ~InFrame("cw_join_audio"))

\* both threads were stopped while running: the video thread read once more
\* after the flag was cleared, released its capture, and the stream is closed
C6_Witness ==
  /\ Happened("audio.joined") /\ h.readsAfterStop = 1
  /\ vt.pc = "done" /\ cap = "released"
  /\ at.kind = "sd" /\ at.pc = "done" /\ stream = "closed"

\* the typed line that prompt_selection has just consumed is one it rejects
Rejected(max_index, line) ==
  ~int(line).ok \/ int(line).val < 0 \/ int(line).val >= max_index

InRange(i, list) == 0 <= i /\ i < Len(list)

\* the audio entry main shows at position c is the one its subscript reads
ShownEntryIsUsed(l) ==
  LET c == l.audio_choice
      off == c - Len(l.rtmixer_indices)
  IN /\ InRange(c, l.all_audio_names) /\ InRange(c, l.device_source)
     /\ \A k \in 1..Len(audio_subscripts(l)) :
          LET s == audio_subscripts(l)[k] IN 0 <= s.i /\ s.i < s.len
     /\ IF At(l.device_source, c) = "rtmixer"
          THEN /\ InRange(c, l.rtmixer_names)
               /\ At(l.all_audio_names, c) = At(l.rtmixer_names, c) \o <<" [RtMixer]">>
          ELSE /\ InRange(off, l.fallback_names)
               /\ At(l.all_audio_names, c) = At(l.fallback_names, off) \o <<" [SoundDevice]">>

\* C7: every device index used is in range of the list it was chosen from:
\* prompt_selection returns only 0 <= c < max_index, equal to the number
\* typed, and asks again (without raising) on any other line; every subscript
\* guiver's main applies for an audio choice is within bounds and reads the
\* entry shown at the chosen position, and the thread gets that entry's index.
C7_DeviceIndexInRange ==
  /\ h.error # "IndexError"
  /\ pc = "ca_prompt_video" => h.error = "" /\
       (loc.lastInput # NoLine => Rejected(Len(loc.video_devices), loc.lastInput))
  /\ pc = "ca_prompt_audio" => h.error = "" /\
       (loc.lastInput # NoLine => Rejected(Len(loc.audio_devices), loc.lastInput))
  /\ pc = "ca_list_audio" =>
       /\ InRange(loc.video_choice, loc.video_devices)
       /\ int(loc.lastInput).ok /\ int(loc.lastInput).val = loc.video_choice
  /\ pc = "ca_index" =>
       /\ InRange(loc.audio_choice, loc.audio_devices)
       /\ InRange(loc.video_choice, loc.video_devices)
       /\ int(loc.lastInput).ok /\ int(loc.lastInput).val = loc.audio_choice
  /\ pc \in {"gv_list_audio", "gv_prompt_audio", "gv_make_audio", "gv_window"} =>
       InRange(loc.video_choice, loc.video_devices)
  /\ pc \in {"gv_make_audio", "gv_window"} => ShownEntryIsUsed(loc)
  /\ (pc = "gv_window" /\ at.pc = "start") =>
       IF At(loc.device_source, loc.audio_choice) = "rtmixer"
         THEN /\ at.kind = "rt"
              /\ at.device_index = At(loc.rtmixer_indices, loc.audio_choice)
              /\ at.api = At(loc.rtmixer_apis, loc.audio_choice)
         ELSE /\ at.kind = "sd"
              /\ at.device_index =
                   At(loc.fallback_indices, loc.audio_choice - Len(loc.rtmixer_indices))
  /\ pc \in {"ca_start_audio", "ca_window"} =>
       /\ InRange(loc.video_choice, loc.video_devices)
       /\ InRange(loc.audio_choice, loc.audio_devices)

\* a sounddevice entry chosen from a list that has rtmixer entries before it
C7_Witness ==
  /\ app = "guiver" /\ pc = "gv_window" /\ at.kind = "sd" /\ at.pc = "start"
  /\ Len(loc.rtmixer_indices) > 0
  /\ loc.audio_choice = Len(loc.all_audio_names) - 1

\* C8: at every point of every run at most one video thread and at most one
\* audio thread, so at most two workers, are alive.
C8_AtMostTwoWorkers ==
  /\ alive.video \in {0, 1}
  /\ alive.audio \in {0, 1}
  /\ alive.video = (IF vt.pc \in {"none", "done"} THEN 0 ELSE 1)
  /\ alive.audio = (IF at.pc \in {"none", "done"} THEN 0 ELSE 1)

\* both workers are running
C8_Witness == alive.video = 1 /\ alive.audio = 1 /\ pc = "exec"

Opens == h.videoOpens + h.audioOpens

\* C9 as stated: every script lists, prompts, then opens exactly one video and
\* one audio handle: no handle is open before the lists and the selection, and
\* a script that ran to its end without an error has opened one of each.
C9_SameSequenceInEveryScript ==
  /\ Opens > 0 => h.listed # {} /\ h.prompts > 0
  /\ (pc = "exited" /\ h.reported = {} /\ h.error = "") =>
       h.videoOpens = 1 /\ h.audioOpens = 1

\* C9 amended: capture_app and guiver/main list, prompt, open, pump: no handle
\* is opened and no window built before both lists were produced and both
\* selections made, at most one video and one audio handle are opened, and
\* exactly one of each in a session that ends with no error reported;
\* asiofinder only lists: it prompts for nothing and opens no handle and no
\* window; other lists the cameras, prompts for nothing, opens the first
\* camera and no audio handle.
C9_ScriptSequences ==
  /\ Capturing =>
       /\ (Opens > 0 \/ win.main # "none" \/ ThreadsCreated) =>
             {"video", "audio"} \subseteq h.listed /\ h.prompts = 2
       /\ h.videoOpens <= 1 /\ h.audioOpens <= 1 /\ h.prompts <= 2
       /\ (pc = "exited" /\ h.reported = {} /\ h.error = "") =>
             h.videoOpens = 1 /\ h.audioOpens = 1 /\ h.userCloses = 1
  /\ app = "asiofinder" =>
       h.prompts = 0 /\ Opens = 0 /\ win.main = "none" /\ ~ThreadsCreated
  /\ app = "other" =>
       /\ h.prompts = 0 /\ h.audioOpens = 0 /\ h.videoOpens <= 1
       /\ h.videoOpens = 1 => "video" \in h.listed

\* a guiver session that opened both handles, showed a frame and was closed
C9_Witness ==
  /\ app = "guiver" /\ pc = "exited" /\ h.reported = {}
  /\ h.videoOpens = 1 /\ h.audioOpens = 1 /\ h.frames > 0

\* C10: in guiver closing either window tears the session down exactly once:
\* each thread is stopped once and joined before the application quits, both
\* windows end up closed, each closeEvent runs once and the mutual close calls
\* nest at most two deep.
C10_TornDownOnce ==
  app = "guiver" =>
    /\ h.vstops <= 1 /\ h.astops <= 1 /\ h.userCloses <= 1
    /\ Len(stack) <= 2
    /\ Count("capture.accepted") <= 1 /\ Count("debug.accepted") <= 1
    /\ (ThreadsCreated /\ (quit \/ pc = "exited")) =>
          /\ vt.pc = "done" /\ at.pc = "done"
          /\ h.vstops = 1 /\ h.astops = 1
    /\ (pc = "exited" /\ h.userCloses > 0) =>
          /\ win.main = "closed" /\ win.dbg = "closed"
          /\ Count("capture.accepted") = 1 /\ Count("debug.accepted") = 1
          /\ stack = <<>>

\* the user closed the debug window first and the session is over
C10_Witness ==
  /\ app = "guiver" /\ pc = "exited" /\ Len(log) > 0
  /\ log[Len(log)] = "debug.accepted" /\ Happened("audio.joined")

\* C11: whatever the interleaving of AudioStreamRTMixer.stop() with run(),
\* once stop() has returned (its wait() has seen run return) the stream that
\* run started is not running and its mixer has been closed.
C11_StopClosesMixer ==
  (app = "guiver" /\ at.kind = "rt" /\ h.audioOpens > 0
     /\ Happened("audio.joined")) => mixer = "closed"

\* C12: in capture_app.main all_devices.index(audio_devices[i]) succeeds and
\* the index handed to AudioStream is the position that the selected filtered
\* device had in the device list it was filtered from.
C12_IndexIsOriginalPosition ==
  app = "capture_app" =>
    /\ h.error # "ValueError"
    /\ pc = "ca_start_audio" =>
         loc.audio_choice_device_index = At(loc.audio_positions, loc.audio_choice)

====
